---- MODULE Spec2Model ----
(***************************************************************************)
(* Model of the rfx installer's archive extraction (installer/archive.c).  *)
(*                                                                         *)
(* unpack_archive is modelled as a state machine over the decompressed     *)
(* byte stream: pc is the position in the function, zpos the position of   *)
(* the reader z, fs the filesystem, sink the calls made on status_t.       *)
(* Bytes are integers 0..255 and strings are sequences of bytes with C     *)
(* string semantics (they end at the first NUL).  This is Spec.            *)
(*                                                                         *)
(* ReaderSpec is the reader_t layer on its own: a caller reads from a      *)
(* memory reader, or from an inflate filter set on one, and releases it.   *)
(***************************************************************************)
EXTENDS Integers, Sequences, FiniteSets, TLC

VARIABLES
    build,      \* [WIN32, ZLIB]: the preprocessor configuration of the build
    input,      \* what the caller supplied: the entries encoded, the header, the cut
    data,       \* the decompressed byte stream the reader z yields
    destdir,    \* unpack_archive's destdir argument
    fs,         \* the filesystem: [dirs, files]
    pc,         \* position in unpack_archive
    zpos,       \* number of bytes read from z so far
    num,        \* unpack_archive: int num
    pos,        \* unpack_archive: int pos
    id,         \* unpack_archive: id[0..2] as read (a 3-byte sequence)
    len,        \* unpack_archive: int len of the current entry
    filename,   \* the current entry's path (after concatPaths / write_file's rewriting)
    wpos,       \* write_file: int pos
    fo,         \* write_file: the path of the open FILE*, <<>> when none is open
    result,     \* unpack_archive's return value, -1 while it is running
    sink,       \* the calls made on the status_t callbacks, in order
    rlog,       \* the calls made on z->read, in order
    run,        \* how many times the caller has invoked unpack_archive
    prev,       \* result and filesystem at the end of the previous invocation
    heap,       \* what this invocation allocated and released: [made, freed]
    memreader,  \* a reader_t made by reader_init_memreader, with its memread_t
    inflater,   \* a reader_t made by reader_init_zlibinflate, with its zlibinflate_t
    caller      \* the code driving a reader: its position and the calls it made

\* the state of unpack_archive and the state of a reader driven on its own
unpackVars == <<build, input, data, destdir, fs, pc, zpos, num, pos, id, len, filename,
                wpos, fo, result, sink, rlog, run, prev, heap>>
readerVars == <<memreader, inflater, caller>>

vars == <<build, input, data, destdir, fs, pc, zpos, num, pos, id, len, filename,
          wpos, fo, result, sink, rlog, run, prev, heap, memreader, inflater, caller>>

(***************************************************************************)
(* Characters                                                              *)
(***************************************************************************)
DOT == 46
SLASH == 47
BACKSLASH == 92
NUL == 0

TagEND == <<69, 78, 68>>
TagDIR == <<68, 73, 82>>
TagFIL == <<70, 73, 76>>

Min(a, b) == IF a < b THEN a ELSE b

\* A char buffer read as a C string: the bytes before the first NUL.
RECURSIVE CStr(_)
CStr(s) ==
    IF s = <<>> \/ Head(s) = NUL THEN <<>> ELSE <<Head(s)>> \o CStr(Tail(s))

StrEq(a, b) == CStr(a) = CStr(b)

(***************************************************************************)
(* Integers                                                                *)
(***************************************************************************)
\* b1|b2<<8|b3<<16|b4<<24 stored in an int (32 bits, two's complement).
DecodeInt(b1, b2, b3, b4) ==
    b1 + b2 * 256 + b3 * 65536 + (IF b4 >= 128 THEN b4 - 256 ELSE b4) * 16777216


\* The 4-byte little-endian form of n (0 <= n < 2^31), as a packer writes it.
EncodeLE(n) ==
    <<n % 256, (n \div 256) % 256, (n \div 65536) % 256, (n \div 16777216) % 256>>

(***************************************************************************)
(* Paths and the filesystem                                                *)
(*                                                                         *)
(* A directory or file is identified by the sequence of its path           *)
(* components below the working directory (<<>>).  The operating system    *)
(* splits a path string at '/', and, in the WIN32 build, at '\' too.       *)
(***************************************************************************)
IsSep(c, win32) == c = SLASH \/ (win32 /\ c = BACKSLASH)

RECURSIVE Components(_, _, _)
Components(s, cur, win32) ==
    IF s = <<>> THEN <<cur>>
    ELSE IF IsSep(Head(s), win32)
         THEN <<cur>> \o Components(Tail(s), <<>>, win32)
         ELSE Components(Tail(s), Append(cur, Head(s)), win32)

RECURSIVE Normalize(_, _)
Normalize(cs, acc) ==
    IF cs = <<>> THEN acc
    ELSE LET c == Head(cs) IN
         IF c = <<>> \/ c = <<DOT>> THEN Normalize(Tail(cs), acc)
         ELSE IF c = <<DOT, DOT>> /\ acc # <<>> /\ acc[Len(acc)] # <<DOT, DOT>>
              THEN Normalize(Tail(cs), SubSeq(acc, 1, Len(acc) - 1))
              ELSE Normalize(Tail(cs), Append(acc, c))

Resolve(path, win32) == Normalize(Components(path, <<>>, win32), <<>>)

Parent(p) == SubSeq(p, 1, Len(p) - 1)

\* stat(path) succeeds with S_ISDIR / PathIsDirectoryA(path)
IsDirectory(path, f, win32) ==
    path # <<>> /\ Resolve(path, win32) \in f.dirs

\* mkdir(path, 0755) succeeds: the path is free and its parent is a directory
MkdirOk(path, f, win32) ==
    LET p == Resolve(path, win32) IN
    /\ path # <<>>
    /\ p # <<>>
    /\ p \notin f.dirs
    /\ p \notin DOMAIN f.files
    /\ Parent(p) \in f.dirs

\* fopen(path, "wb") succeeds: the path is no directory and its parent is one
FopenOk(path, f, win32) ==
    LET p == Resolve(path, win32) IN
    /\ path # <<>>
    /\ p # <<>>
    /\ p \notin f.dirs
    /\ Parent(p) \in f.dirs

\* fopen(path, "ab"): the file is created, or kept as it is
FopenTruncate_Append(path, f, win32) ==
    LET p == Resolve(path, win32) IN
    [f EXCEPT !.files = [q \in (DOMAIN f.files) \cup {p} |->
                            IF q \in DOMAIN f.files THEN f.files[q] ELSE <<>>]]

\* fopen(path, "wb"): the file is created, or truncated to length 0
FopenTruncate(path, f, win32) ==
    LET p == Resolve(path, win32) IN
    [f EXCEPT !.files = [q \in (DOMAIN f.files) \cup {p} |->
                            IF q = p THEN <<>> ELSE f.files[q]]]

\* fwrite(buf, l, 1, fo)
Fwrite(p, bytes, f) ==
    [f EXCEPT !.files[p] = @ \o bytes]

(***************************************************************************)
(* The status_t callbacks, recorded                                        *)
(***************************************************************************)
Call(op, text, tag, path, n, m) ==
    [op |-> op, text |-> text, tag |-> tag, path |-> path, n |-> n, m |-> m]

CallError(text, path)    == Call("error", text, <<>>, path, 0, 0)
CallMessage(text)        == Call("message", text, <<>>, <<>>, 0, 0)
CallStatus(p, n)         == Call("status", "", <<>>, <<>>, p, n)
CallNewFile(path)        == Call("new_file", "", <<>>, path, 0, 0)
CallNewDirectory(path)   == Call("new_directory", "", <<>>, path, 0, 0)
CallEntryMessage(tag, path, l) == Call("message", "entry", tag, path, l, 0)

(***************************************************************************)
(* Helpers of archive.c                                                    *)
(***************************************************************************)
\* while(path[0]=='.' && (path[1]=='/' || path[1]=='\\')) path+=2;
RECURSIVE StripDotSlash(_)
StripDotSlash(s) ==
    IF Len(s) >= 2 /\ s[1] = DOT /\ (s[2] = SLASH \/ s[2] = BACKSLASH)
    THEN StripDotSlash(SubSeq(s, 3, Len(s)))
    ELSE s

\* create_directory with the test of line 276 skipping every path that begins
\* with a dot
create_directory_SkipsDotPaths(path, f, win32) ==
    IF path = <<>> \/ path[1] = DOT
    THEN [ret |-> 1, fs |-> f, calls |-> <<>>]
    ELSE IF IsDirectory(path, f, win32)
         THEN [ret |-> 1, fs |-> f, calls |-> <<>>]
         ELSE IF MkdirOk(path, f, win32)
              THEN [ret |-> 1,
                    fs |-> [f EXCEPT !.dirs = @ \cup {Resolve(path, win32)}],
                    calls |-> <<>>]
              ELSE [ret |-> 0, fs |-> f,
                    calls |-> <<CallError("create directory FAILED", path)>>]

\* create_directory without the test for an existing directory of lines 281-291
create_directory_NoStat(path, f, win32) ==
    IF path = <<>> \/ (path[1] = DOT /\ (Len(path) = 1 \/ path[2] = DOT))
    THEN [ret |-> 1, fs |-> f, calls |-> <<>>]
    ELSE LET p == StripDotSlash(path) IN
         IF MkdirOk(p, f, win32)
         THEN [ret |-> 1,
               fs |-> [f EXCEPT !.dirs = @ \cup {Resolve(p, win32)}],
               calls |-> <<>>]
         ELSE [ret |-> 0, fs |-> f,
               calls |-> <<CallError("create directory FAILED", p)>>]

\* create_directory reporting a failed mkdir and returning 1 all the same
create_directory_GoesOn(path, f, win32) ==
    IF path = <<>> \/ (path[1] = DOT /\ (Len(path) = 1 \/ path[2] = DOT))
    THEN [ret |-> 1, fs |-> f, calls |-> <<>>]
    ELSE LET p == StripDotSlash(path) IN
         IF IsDirectory(p, f, win32)
         THEN [ret |-> 1, fs |-> f, calls |-> <<>>]
         ELSE IF MkdirOk(p, f, win32)
              THEN [ret |-> 1,
                    fs |-> [f EXCEPT !.dirs = @ \cup {Resolve(p, win32)}],
                    calls |-> <<>>]
              ELSE [ret |-> 1, fs |-> f,
                    calls |-> <<CallError("create directory FAILED", p)>>]

\* create_directory(path, f): the value returned, the filesystem left and the
\* calls made on the sink.
create_directory(path, f, win32) ==
    IF path = <<>> \/ (path[1] = DOT /\ (Len(path) = 1 \/ path[2] = DOT))
    THEN [ret |-> 1, fs |-> f, calls |-> <<>>]
    ELSE LET p == StripDotSlash(path) IN
         IF IsDirectory(p, f, win32)
         THEN [ret |-> 1, fs |-> f, calls |-> <<>>]
         ELSE IF MkdirOk(p, f, win32)
              THEN [ret |-> 1,
                    fs |-> [f EXCEPT !.dirs = @ \cup {Resolve(p, win32)}],
                    calls |-> <<>>]
              ELSE [ret |-> 0, fs |-> f,
                    calls |-> <<CallError("create directory FAILED", p)>>]

\* strrchr(filename, c): the index of the last c, 0 when there is none
LastIndexOf(s, c) ==
    LET I == {i \in 1..Len(s) : s[i] = c} IN
    IF I = {} THEN 0 ELSE CHOOSE i \in I : \A j \in I : j <= i

\* get_directory(filename)
get_directory(s) ==
    LET r1 == LastIndexOf(s, BACKSLASH)
        r2 == LastIndexOf(s, SLASH)
        r  == IF r1 > r2 THEN r1 ELSE r2
    IN  IF r = 0 THEN <<>> ELSE SubSeq(s, 1, r - 1)

\* write_file, lines 327-336: the name the file is opened under
WriteFileName(s) ==
    LET t == StripDotSlash(s) IN
    [i \in 1..Len(t) |-> IF t[i] = SLASH THEN BACKSLASH ELSE t[i]]

\* concatPaths(base, add) of utils.c: the two joined by the path separator
concatPaths(base, add, win32) ==
    base \o <<IF win32 THEN BACKSLASH ELSE SLASH>> \o add

(***************************************************************************)
(* The readers (reader_t): the memory reader and the inflate filter        *)
(*                                                                         *)
(* A reader is a record of the fields of its reader_t and of its internal  *)
(* struct.  internal is TRUE while reader->internal points to the struct.  *)
(* frees, deallocs and ends count the calls of free(internal), of the      *)
(* reader's dealloc and of inflateEnd made so far.                         *)
(***************************************************************************)
ZLIB_BUFFER_SIZE == 16384

\* reader_init_memreader(newdata, newlength)
reader_init_memreader(newdata, newlength) ==
    [data |-> newdata, length |-> newlength, pos |-> 0, internal |-> TRUE,
     frees |-> 0, deallocs |-> 0]

\* reader_memread without the cursor moving on
reader_memread_NoAdvance(reader, _len) ==
    LET l == IF reader.length - reader.pos < _len
             THEN reader.length - reader.pos ELSE _len
    IN  [ret |-> l,
         bytes |-> SubSeq(reader.data, reader.pos + 1, reader.pos + l),
         reader |-> reader]

\* reader_memread(reader, data, _len): the value returned, the bytes copied to
\* data and the reader left
reader_memread(reader, _len) ==
    LET l == IF reader.length - reader.pos < _len
             THEN reader.length - reader.pos ELSE _len
    IN  [ret |-> l,
         bytes |-> SubSeq(reader.data, reader.pos + 1, reader.pos + l),
         reader |-> [reader EXCEPT !.pos = @ + l]]

\* reader_memread_dealloc(reader)
reader_memread_dealloc(reader) ==
    [reader EXCEPT !.frees = IF reader.internal THEN @ + 1 ELSE @,
                   !.internal = FALSE,
                   !.pos = 0,
                   !.deallocs = @ + 1]

\* reader_init_zlibinflate(input): the filter, its z_stream zeroed and
\* inflateInit called
reader_init_zlibinflate ==
    [internal |-> TRUE, pos |-> 0, input |-> TRUE,
     avail_in |-> 0, total_in |-> 0, avail_out |-> 0, total_out |-> 0,
     frees |-> 0, deallocs |-> 0, ends |-> 0]

(***************************************************************************)
(* zlib's inflate, as the filter uses it.  The compressed form of the      *)
(* model: every byte but EOS stands for two copies of itself, EOS ends     *)
(* the stream; what follows EOS is not looked at.                          *)
(***************************************************************************)
EOS == 0

\* the index of the end mark of the compressed bytes c, Len(c) + 1 without one
EndAt(c) ==
    LET I == {i \in 1..Len(c) : c[i] = EOS} IN
    IF I = {} THEN Len(c) + 1 ELSE CHOOSE i \in I : \A j \in I : i <= j

\* the j-th byte of the decompressed stream
PlainByte(c, j) == c[(j + 1) \div 2]
PlainLen(c) == 2 * (EndAt(c) - 1)

\* inflate(&zs, flush) with the bytes from total_in + 1 on of c at next_in.
\* eager: with the output buffer full the decoder still takes the end mark,
\* when it is the next byte at hand, instead of leaving it to the next call.
inflate(c, zs, flush, eager) ==
    LET E     == EndAt(c)
        have  == zs.total_in + zs.avail_in
        reach == Min(have, E - 1)
        p     == Min(zs.avail_out, 2 * reach - zs.total_out)
        out   == zs.total_out + p
        full  == p = zs.avail_out
        begun == (out + 1) \div 2
        tin   == IF full
                 THEN IF eager /\ out = 2 * (E - 1) /\ E <= have THEN E ELSE begun
                 ELSE Min(have, E)
        ret   == IF tin = E /\ E <= Len(c) THEN "Z_STREAM_END"
                 ELSE IF (tin = zs.total_in /\ p = 0) \/ flush = "Z_FINISH"
                      THEN "Z_BUF_ERROR"
                      ELSE "Z_OK"
    IN  [ret |-> ret,
         bytes |-> [j \in 1..p |-> PlainByte(c, zs.total_out + j)],
         zs |-> [zs EXCEPT !.avail_in = have - tin, !.total_in = tin,
                           !.avail_out = @ - p, !.total_out = out]]

\* reader_zlibinflate, lines 207-232: the loop.  z is the filter, m its input,
\* got the bytes put into the caller's buffer and mcalls the calls of
\* z->input->read so far in this call.
RECURSIVE InflateLoop(_, _, _, _, _, _)
InflateLoop(z, m, len_, got, mcalls, eager) ==
    LET refill == z.avail_in = 0
        rd     == reader_memread(m, ZLIB_BUFFER_SIZE)
        m1     == IF refill THEN rd.reader ELSE m
        z1     == IF refill THEN [z EXCEPT !.avail_in = rd.ret] ELSE z
        calls1 == IF refill
                  THEN Append(mcalls, [at |-> m.pos, max_len |-> ZLIB_BUFFER_SIZE,
                                       ret |-> rd.ret, bytes |-> rd.bytes,
                                       after |-> rd.reader.pos])
                  ELSE mcalls
        r      == inflate(m.data, z1,
                          IF z1.avail_in # 0 THEN "Z_NO_FLUSH" ELSE "Z_FINISH", eager)
        got1   == got \o r.bytes
    IN  IF r.ret \notin {"Z_OK", "Z_STREAM_END"}
        THEN [exit |-> TRUE, ret |-> 0, got |-> got1, z |-> r.zs, m |-> m1,
              mcalls |-> calls1]
        ELSE IF r.ret = "Z_STREAM_END"
             THEN [exit |-> FALSE, ret |-> Len(got1), got |-> got1,
                   z |-> [r.zs EXCEPT !.ends = @ + 1, !.frees = @ + 1,
                                      !.internal = FALSE, !.pos = @ + Len(got1)],
                   m |-> m1, mcalls |-> calls1]
             ELSE IF r.zs.avail_out = 0
                  THEN [exit |-> FALSE, ret |-> len_, got |-> got1,
                        z |-> [r.zs EXCEPT !.pos = @ + len_],
                        m |-> m1, mcalls |-> calls1]
                  ELSE InflateLoop(r.zs, m1, len_, got1, calls1, eager)

\* reader_zlibinflate returning the length asked for from the read that meets
\* the end of the stream too
reader_zlibinflate_LenAtEnd(z, m, len_, eager) ==
    IF ~z.internal \/ len_ = 0
    THEN [exit |-> FALSE, ret |-> 0, got |-> <<>>, z |-> z, m |-> m, mcalls |-> <<>>]
    ELSE LET r == InflateLoop([z EXCEPT !.avail_out = len_], m, len_, <<>>, <<>>, eager)
         IN  IF r.exit \/ r.z.internal
             THEN r
             ELSE [r EXCEPT !.ret = len_, !.z.pos = z.pos + len_]

\* reader_zlibinflate(reader, data, len)
reader_zlibinflate(z, m, len_, eager) ==
    IF ~z.internal \/ len_ = 0
    THEN [exit |-> FALSE, ret |-> 0, got |-> <<>>, z |-> z, m |-> m, mcalls |-> <<>>]
    ELSE InflateLoop([z EXCEPT !.avail_out = len_], m, len_, <<>>, <<>>, eager)

\* reader_zlibinflate_dealloc(reader)
reader_zlibinflate_dealloc(z, m) ==
    IF z.internal
    THEN [z |-> [z EXCEPT !.input = FALSE, !.ends = @ + 1, !.frees = @ + 1,
                          !.internal = FALSE, !.pos = 0, !.deallocs = @ + 1],
          m |-> IF z.input THEN reader_memread_dealloc(m) ELSE m]
    ELSE [z |-> [z EXCEPT !.pos = 0, !.deallocs = @ + 1], m |-> m]

\* no reader is being driven on its own
NoReader == [internal |-> FALSE]
NoCaller == [phase |-> "none"]

(***************************************************************************)
(* Inputs: archives in the wire format                                     *)
(***************************************************************************)
MaxEntries == 2       \* entries per enumerated archive
MaxGarbageLen == 2    \* largest value an uninitialized filename_len takes
MaxRuns == 2          \* invocations of unpack_archive by the caller
CHUNK == 4096         \* write_file: int l = 4096

\* the values the bytes of an uninitialized buffer take
GarbageBytes == {NUL, 103}

Name_s   == <<115>>
Name_d_s == <<DOT, SLASH, 115>>
Name_st  == <<115, SLASH, 116>>
Name_f   == <<102>>
Name_sf  == <<115, SLASH, 102>>

Entry(tag, size, name, payload) ==
    [tag |-> tag, size |-> size, name |-> name, payload |-> payload]

DirEntry(name) == Entry(TagDIR, EncodeLE(0), name, <<>>)
FileEntry(name, payload) == Entry(TagFIL, EncodeLE(Len(payload)), name, payload)

EntrySet ==
    { DirEntry(Name_s), DirEntry(Name_d_s), DirEntry(Name_st),
      FileEntry(Name_f, <<120, 121>>), FileEntry(Name_f, <<>>),
      FileEntry(Name_sf, <<122>>) }

\* payloads around the chunk size of write_file
Payload(k) == [i \in 1..k |-> i % 251]
BigSizes == {CHUNK - 1, CHUNK, CHUNK + 1, 2 * CHUNK}

\* streams no packer writes: a size with the top bit set, a DIR with a size
CraftedEntries ==
    { Entry(TagFIL, <<0, 0, 0, 128>>, Name_f, <<>>),
      Entry(TagFIL, <<255, 255, 255, 255>>, Name_f, <<120>>),
      Entry(TagDIR, <<1, 0, 0, 0>>, Name_s, <<>>) }

EntryBytes(e) == e.tag \o e.size \o <<Len(e.name)>> \o e.name \o e.payload

RECURSIVE EntriesBytes(_)
EntriesBytes(es) ==
    IF es = <<>> THEN <<>> ELSE EntryBytes(Head(es)) \o EntriesBytes(Tail(es))

\* [4-byte LE entry_count][entries...]["END"]
Encode(count, es) == count \o EntriesBytes(es) \o TagEND

Archives == UNION { [1..k -> EntrySet] : k \in 0..MaxEntries }

Builds == [WIN32 : BOOLEAN, ZLIB : BOOLEAN]
ZlibBuilds == [WIN32 : BOOLEAN, ZLIB : {TRUE}]

Dir_d  == <<100>>
Dir_dd == <<DOT, DOT, 100>>
DestDirs == { Dir_d, <<DOT>>, Dir_dd }

NoFiles == [q \in {} |-> <<>>]
FsEmpty == [dirs |-> {<<>>}, files |-> NoFiles]
FsPopulated ==
    [dirs |-> {<<>>, <<Dir_d>>, <<Dir_d, Name_s>>},
     files |-> [q \in {<<Dir_d, Name_f>>} |-> <<57, 57, 57>>]]
FsBlocked ==
    [dirs |-> {<<>>, <<Dir_d>>},
     files |-> [q \in {<<Dir_d, Name_s>>} |-> <<57>>]]
InitialFs == { FsEmpty, FsPopulated, FsBlocked }

Scenario(kind, es, count, cut, dd, f, b) ==
    [kind |-> kind, entries |-> es, count |-> count, cut |-> cut,
     destdir |-> dd, fs |-> f, build |-> b]

\* complete archives, with the header the packer writes and with other headers
ValidCounts ==
    { Scenario("valid", es, c, -1, Dir_d, FsEmpty, b) :
        es \in Archives, b \in Builds,
        c \in { EncodeLE(0), EncodeLE(2), <<1, 0, 0, 128>> } }

\* complete archives into the destinations and filesystems
ValidPlaces ==
    { Scenario("valid", es, EncodeLE(Len(es)), -1, dd, f, b) :
        es \in Archives, dd \in DestDirs, f \in InitialFs, b \in ZlibBuilds }

\* complete archives cut at every byte offset
Truncated ==
    UNION { { Scenario("truncated", es, EncodeLE(Len(es)), cut, Dir_d, FsEmpty,
                       [WIN32 |-> TRUE, ZLIB |-> TRUE]) :
                cut \in 0..(Len(Encode(EncodeLE(Len(es)), es)) - 1) } :
            es \in Archives }

BigFiles ==
    { Scenario("valid", <<FileEntry(Name_f, Payload(k))>>, EncodeLE(1), -1,
               Dir_d, FsEmpty, [WIN32 |-> w, ZLIB |-> TRUE]) :
        k \in BigSizes, w \in BOOLEAN }

BigTruncated ==
    { Scenario("truncated", <<FileEntry(Name_f, Payload(k))>>, EncodeLE(1),
               4 + 3 + 4 + 1 + 1 + k - 1,
               Dir_d, FsEmpty, [WIN32 |-> w, ZLIB |-> TRUE]) :
        k \in BigSizes, w \in BOOLEAN }

Crafted ==
    { Scenario("crafted", <<e>>, EncodeLE(1), -1, Dir_d, FsEmpty, b) :
        e \in CraftedEntries, b \in Builds }

\* compressed data whose LZMA properties header does not decode: there is no
\* decompressed stream
Undecodable ==
    { Scenario("undecodable", <<>>, <<>>, 0, dd, FsEmpty, [WIN32 |-> w, ZLIB |-> FALSE]) :
        dd \in DestDirs, w \in BOOLEAN }

Scenarios ==
    ValidCounts \cup ValidPlaces \cup Truncated \cup BigFiles \cup BigTruncated
    \cup Crafted \cup Undecodable

Stream(sc) ==
    LET full == Encode(sc.count, sc.entries) IN
    IF sc.cut < 0 THEN full ELSE SubSeq(full, 1, sc.cut)

(***************************************************************************)
(* unpack_archive                                                          *)
(***************************************************************************)
\* what an invocation allocates and has to release: the reader m, the reader z
\* and the copy of the name write_file makes with strdup
Resources == {"m", "z", "filename"}

HeapEmpty == [made  |-> [r \in Resources |-> 0],
              freed |-> [r \in Resources |-> 0]]

Malloc(h, r) == [h EXCEPT !.made[r] = @ + 1]
Free(h, r)   == [h EXCEPT !.freed[r] = @ + 1]

Init ==
    \E sc \in Scenarios :
        /\ build = sc.build
        /\ input = [kind |-> sc.kind, entries |-> sc.entries,
                    count |-> sc.count, cut |-> sc.cut]
        /\ data = Stream(sc)
        /\ destdir = sc.destdir
        /\ fs = sc.fs
        /\ pc = "start"
        /\ zpos = 0
        /\ num = 0
        /\ pos = 0
        /\ id = <<>>
        /\ len = 0
        /\ filename = <<>>
        /\ wpos = 0
        /\ fo = <<>>
        /\ result = -1
        /\ sink = <<>>
        /\ rlog = <<>>
        /\ run = 1
        /\ prev = [result |-> -1, fs |-> sc.fs]
        /\ heap = HeapEmpty
        /\ memreader = NoReader
        /\ inflater = NoReader
        /\ caller = NoCaller

Remaining == Len(data) - zpos

\* f->status(++pos, num) with pos = p
EntryStatus_PostIncrement(p, n) == CallStatus(p, n)
EntryStatus(p, n) == CallStatus(p + 1, n)

\* lines 415-420: how many one-byte reads follow the tag id as its size
SizeReads_NoneForDir(tag) == IF StrEq(tag, TagDIR) THEN 0 ELSE 4
SizeReads(tag) == 4

ReadCall(what, at, req, got) ==
    [what |-> what, at |-> at, req |-> req, got |-> got]

\* n calls z->read(z, &b, 1), k of which find a byte
ByteReads(what, n, k) ==
    [i \in 1..n |-> ReadCall(what, zpos + Min(i - 1, k), 1, IF i <= k THEN 1 ELSE 0)]

\* return r replaced by another turn of the loop
Return_Retries(r) ==
    /\ result' = result
    /\ pc' = "tag"

Return(r) ==
    /\ result' = r
    /\ pc' = "done"

\* lines 373-378: whether a reader z is returned.  reader_init_zlibinflate always
\* returns one; reader_init_lzma returns 0 when LzmaDecodeProperties fails.
reader_init_NeverFails(zlib, kind) == TRUE
reader_init(zlib, kind) == zlib \/ kind # "undecodable"

\* lines 373-385: the readers are set up and the destination is created
Start ==
    /\ pc = "start"
    /\ LET z == reader_init(build.ZLIB, input.kind) IN
         IF ~z
         THEN /\ sink' = Append(sink, CallError("Couldn't decompress installation files", <<>>))
              /\ Return(0)
              /\ fs' = fs
              /\ heap' = Malloc(heap, "m")
         ELSE LET cd == create_directory(destdir, fs, build.WIN32) IN
              /\ heap' = Malloc(Malloc(heap, "m"), "z")
              /\ sink' = sink \o <<CallMessage("Creating installation directory")>> \o cd.calls
              /\ fs' = cd.fs
              /\ IF cd.ret = 0
                 THEN Return(0)
                 ELSE pc' = "header" /\ result' = result
    /\ UNCHANGED readerVars
    /\ UNCHANGED <<build, input, data, destdir, zpos, num, pos, id, len, filename,
                   wpos, fo, rlog, run, prev>>

\* lines 389-403: the header
ReadHeader ==
    /\ pc = "header"
    /\ LET k == Min(4, Remaining)
           b(i) == IF i <= k THEN data[zpos + i] ELSE 0
       IN  /\ rlog' = rlog \o ByteReads("header", 4, k)
           /\ zpos' = zpos + k
           /\ IF k < 4
              THEN /\ Return(0)
                   /\ UNCHANGED <<num, sink>>
              ELSE /\ num' = DecodeInt(b(1), b(2), b(3), b(4))
                   /\ sink' = sink \o <<CallStatus(0, num'),
                                        CallMessage("Uncompressing files...")>>
                   /\ pc' = "tag"
                   /\ result' = result
    /\ pos' = 0
    /\ UNCHANGED readerVars
    /\ UNCHANGED <<build, input, data, destdir, fs, id, len, filename, wpos, fo,
                   run, prev, heap>>

\* lines 405-413 and, at END, 452-453
ReadTag ==
    /\ pc = "tag"
    /\ LET k == Min(3, Remaining) IN
       /\ rlog' = Append(rlog, ReadCall("tag", zpos, 3, k))
       /\ zpos' = zpos + k
       /\ IF k < 3
          THEN /\ sink' = Append(sink, CallError("Unexpected end of archive", <<>>))
               /\ Return(0)
               /\ id' = id
          ELSE /\ id' = SubSeq(data, zpos + 1, zpos + 3)
               /\ IF StrEq(id', TagEND)
                  THEN /\ sink' = Append(sink, CallMessage("Finishing Installation"))
                       /\ Return(1)
                  ELSE /\ sink' = sink
                       /\ pc' = "size"
                       /\ result' = result
    /\ UNCHANGED readerVars
    /\ UNCHANGED <<build, input, data, destdir, fs, num, pos, len, filename, wpos,
                   fo, run, prev, heap>>

\* lines 415-425: the size of the entry
ReadSize ==
    /\ pc = "size"
    /\ LET n == SizeReads(id)
           k == Min(n, Remaining)
           b(i) == IF i <= k THEN data[zpos + i] ELSE 0
       IN  /\ rlog' = rlog \o ByteReads("size", n, k)
           /\ zpos' = zpos + k
           /\ IF k < n
              THEN /\ Return(0)
                   /\ len' = len
              ELSE /\ len' = DecodeInt(b(1), b(2), b(3), b(4))
                   /\ pc' = "name"
                   /\ result' = result
    /\ UNCHANGED readerVars
    /\ UNCHANGED <<build, input, data, destdir, fs, num, pos, id, filename, wpos,
                   fo, sink, run, prev, heap>>

\* lines 427-443: the name of the entry, the progress report and the message.
\* The values returned by the two reads are not looked at: a byte that was not
\* read is whatever the buffer held.
ReadName ==
    /\ pc = "name"
    /\ LET k1 == Min(1, Remaining) IN
       \E filename_len \in (IF k1 = 1 THEN {data[zpos + 1]} ELSE 0..MaxGarbageLen) :
         LET at2 == zpos + k1
             k2  == Min(filename_len, Len(data) - at2)
         IN  \E garbage \in [1..(filename_len - k2) -> GarbageBytes] :
               LET buf  == SubSeq(data, at2 + 1, at2 + k2) \o garbage
                   name == StripDotSlash(CStr(buf))
                   path == concatPaths(destdir, name, build.WIN32)
               IN  /\ rlog' = rlog \o <<ReadCall("namelen", zpos, 1, k1),
                                        ReadCall("name", at2, filename_len, k2)>>
                   /\ zpos' = at2 + k2
                   /\ filename' = path
                   /\ pos' = pos + 1
                   /\ sink' = sink \o <<EntryStatus(pos, num),
                                        CallEntryMessage(CStr(id), path, len)>>
    /\ pc' = "entry"
    /\ UNCHANGED readerVars
    /\ UNCHANGED <<build, input, data, destdir, fs, num, id, len, wpos, fo, result,
                   run, prev, heap>>

\* lines 444-450, with write_file up to its fopen (lines 327-349)
Dispatch ==
    /\ pc = "entry"
    /\ IF StrEq(id, TagDIR)
       THEN LET cd == create_directory(filename, fs, build.WIN32) IN
            /\ sink' = sink \o <<CallNewDirectory(filename)>> \o cd.calls
            /\ fs' = cd.fs
            /\ IF cd.ret = 0 THEN Return(0) ELSE pc' = "tag" /\ result' = result
            /\ UNCHANGED <<filename, wpos, fo, heap>>
       ELSE LET cd == create_directory(get_directory(filename), fs, build.WIN32)
                wname == WriteFileName(filename)
            IN  IF cd.ret = 0
                THEN /\ sink' = sink \o cd.calls
                     /\ fs' = cd.fs
                     /\ Return(0)
                     /\ UNCHANGED <<filename, wpos, fo, heap>>
                ELSE IF ~FopenOk(wname, cd.fs, build.WIN32)
                     THEN /\ sink' = sink \o <<CallNewFile(wname),
                                               CallError("Couldn't create file", wname)>>
                          /\ fs' = cd.fs
                          /\ heap' = Free(Malloc(heap, "filename"), "filename")
                          /\ Return(0)
                          /\ UNCHANGED <<filename, wpos, fo>>
                     ELSE /\ sink' = Append(sink, CallNewFile(wname))
                          /\ fs' = FopenTruncate(wname, cd.fs, build.WIN32)
                          /\ fo' = Resolve(wname, build.WIN32)
                          /\ heap' = Malloc(heap, "filename")
                          /\ filename' = wname
                          /\ wpos' = 0
                          /\ pc' = "copy"
                          /\ result' = result
    /\ UNCHANGED readerVars
    /\ UNCHANGED <<build, input, data, destdir, zpos, num, pos, id, len, rlog, run,
                   prev>>

\* write_file, lines 352-365: one turn of the copy loop
CopyChunk ==
    /\ pc = "copy"
    /\ wpos < len
    /\ LET l == IF wpos + CHUNK > len THEN len - wpos ELSE CHUNK
           n == Min(l, Remaining)
       IN  /\ rlog' = Append(rlog, ReadCall("data", zpos, l, n))
           /\ zpos' = zpos + n
           /\ IF n < l
              THEN /\ sink' = Append(sink, CallError("Couldn't read byte", filename))
                   /\ Return(0)
                   /\ UNCHANGED <<fs, wpos>>
              ELSE /\ fs' = Fwrite(fo, SubSeq(data, zpos + 1, zpos + l), fs)
                   /\ wpos' = wpos + l
                   /\ UNCHANGED <<sink, pc, result>>
    /\ UNCHANGED readerVars
    /\ UNCHANGED <<build, input, data, destdir, num, pos, id, len, filename, fo,
                   run, prev, heap>>

\* write_file, lines 352 and 366-368: the loop ends, the file is closed
CloseFile ==
    /\ pc = "copy"
    /\ ~(wpos < len)
    /\ fo' = <<>>
    /\ heap' = Free(heap, "filename")
    /\ pc' = "tag"
    /\ UNCHANGED readerVars
    /\ UNCHANGED <<build, input, data, destdir, fs, zpos, num, pos, id, len,
                   filename, wpos, result, sink, rlog, run, prev>>

\* the caller, after an extraction that succeeded, invokes unpack_archive again
\* on the same data and destination
Rerun ==
    /\ pc = "done"
    /\ result = 1
    /\ run < MaxRuns
    /\ run' = run + 1
    /\ prev' = [result |-> result, fs |-> fs]
    /\ pc' = "start"
    /\ zpos' = 0
    /\ num' = 0
    /\ pos' = 0
    /\ id' = <<>>
    /\ len' = 0
    /\ filename' = <<>>
    /\ wpos' = 0
    /\ fo' = <<>>
    /\ result' = -1
    /\ sink' = <<>>
    /\ rlog' = <<>>
    /\ heap' = HeapEmpty
    /\ UNCHANGED readerVars
    /\ UNCHANGED <<build, input, data, destdir, fs>>

Next ==
    \/ Start
    \/ ReadHeader
    \/ ReadTag
    \/ ReadSize
    \/ ReadName
    \/ Dispatch
    \/ CopyChunk
    \/ CloseFile
    \/ Rerun

Spec == Init /\ [][Next]_vars

(***************************************************************************)
(* A reader driven on its own: a caller makes calls of read on a memory    *)
(* reader, or on an inflate filter set on a memory reader, and then calls  *)
(* its dealloc.  zlib_error ends the process: the caller is "exited".      *)
(***************************************************************************)
MaxCalls == 3         \* calls of read the caller makes
MaxTokens == 2        \* bytes before the end mark of an enumerated stream

Tokens == {7, 9}

SmallBytes == UNION { [1..k -> Tokens] : k \in 0..MaxTokens }

\* buffers: complete streams, streams with bytes after the end mark, streams
\* that lack the end mark
SmallBuffers ==
    SmallBytes \cup { c \o <<EOS>> : c \in SmallBytes }
               \cup { c \o <<EOS, 7>> : c \in SmallBytes }

\* buffers longer than the staging buffer of the filter
BigBytes(k) == [i \in 1..k |-> 1 + (i % 5)]
BigBuffers ==
    { BigBytes(ZLIB_BUFFER_SIZE) \o <<EOS>>,
      BigBytes(ZLIB_BUFFER_SIZE + 1) \o <<EOS>>,
      BigBytes(ZLIB_BUFFER_SIZE + 1) }

SmallLens == {0, 1, 3, CHUNK}
BigLens == {CHUNK, 2 * ZLIB_BUFFER_SIZE + CHUNK}

ReaderScenarios ==
    [bytes : SmallBuffers, lens : {SmallLens}, stack : {"mem", "zlib"}]
    \cup [bytes : BigBuffers, lens : {BigLens}, stack : {"mem", "zlib"}]

ReaderInit ==
    /\ \E sc \in ReaderScenarios :
        /\ memreader = reader_init_memreader(sc.bytes, Len(sc.bytes))
        /\ inflater = IF sc.stack = "zlib" THEN reader_init_zlibinflate ELSE NoReader
        /\ caller = [phase |-> "running", stack |-> sc.stack, lens |-> sc.lens,
                     calls |-> <<>>, mcalls |-> <<>>]
    /\ build = [WIN32 |-> FALSE, ZLIB |-> TRUE]
    /\ input = [kind |-> "none", entries |-> <<>>, count |-> <<>>, cut |-> 0]
    /\ data = <<>>
    /\ destdir = <<>>
    /\ fs = FsEmpty
    /\ pc = "idle"
    /\ zpos = 0
    /\ num = 0
    /\ pos = 0
    /\ id = <<>>
    /\ len = 0
    /\ filename = <<>>
    /\ wpos = 0
    /\ fo = <<>>
    /\ result = -1
    /\ sink = <<>>
    /\ rlog = <<>>
    /\ run = 1
    /\ prev = [result |-> -1, fs |-> FsEmpty]
    /\ heap = HeapEmpty

\* the caller calls reader_memread(m, buf, n)
MemRead ==
    /\ caller.phase = "running"
    /\ caller.stack = "mem"
    /\ Len(caller.mcalls) < MaxCalls
    /\ \E n \in caller.lens :
         LET rd == reader_memread(memreader, n) IN
         /\ memreader' = rd.reader
         /\ caller' = [caller EXCEPT !.mcalls =
                          Append(@, [at |-> memreader.pos, max_len |-> n,
                                     ret |-> rd.ret, bytes |-> rd.bytes,
                                     after |-> rd.reader.pos])]
    /\ UNCHANGED inflater
    /\ UNCHANGED unpackVars

\* the caller calls m->dealloc(m)
MemDealloc ==
    /\ caller.phase = "running"
    /\ caller.stack = "mem"
    /\ memreader' = reader_memread_dealloc(memreader)
    /\ caller' = [caller EXCEPT !.phase = "released"]
    /\ UNCHANGED inflater
    /\ UNCHANGED unpackVars

\* the caller calls z->read(z, buf, n)
InflateRead ==
    /\ caller.phase = "running"
    /\ caller.stack = "zlib"
    /\ Len(caller.calls) < MaxCalls
    /\ \E n \in caller.lens, eager \in BOOLEAN :
         LET r == reader_zlibinflate(inflater, memreader, n, eager) IN
         /\ inflater' = r.z
         /\ memreader' = r.m
         /\ caller' = [caller EXCEPT
                !.phase = IF r.exit THEN "exited" ELSE @,
                !.calls = Append(@, [req |-> n,
                                     ret |-> r.ret,
                                     produced |-> Len(r.got),
                                     returned |-> ~r.exit,
                                     active |-> inflater.internal,
                                     finished |-> ~r.z.internal,
                                     mreads |-> Len(r.mcalls),
                                     touched |-> r.z # inflater \/ r.m # memreader]),
                !.mcalls = @ \o r.mcalls]
    /\ UNCHANGED unpackVars

\* the caller calls z->dealloc(z)
InflateDealloc ==
    /\ caller.phase = "running"
    /\ caller.stack = "zlib"
    /\ LET r == reader_zlibinflate_dealloc(inflater, memreader) IN
         /\ inflater' = r.z
         /\ memreader' = r.m
    /\ caller' = [caller EXCEPT !.phase = "released"]
    /\ UNCHANGED unpackVars

ReaderNext ==
    \/ MemRead
    \/ MemDealloc
    \/ InflateRead
    \/ InflateDealloc

ReaderSpec == ReaderInit /\ [][ReaderNext]_vars

(***************************************************************************)
(* Vocabulary of the properties                                            *)
(***************************************************************************)
IsStatus(c)       == c.op = "status"
IsError(c)        == c.op = "error"
IsNewFile(c)      == c.op = "new_file"
IsNewDirectory(c) == c.op = "new_directory"
IsMaterialize(c)  == c.op = "new_file" \/ c.op = "new_directory"

StatusCalls == SelectSeq(sink, IsStatus)
ErrorCalls  == SelectSeq(sink, IsError)

N == Len(input.entries)

\* the second argument m of status is the entry_count the header declares
IsDeclaredCount(m) == m >= 0 /\ EncodeLE(m) = input.count

\* the entries of the archive that lie wholly before the byte offset cut
CompleteEntries(es, cut) ==
    Cardinality({ i \in 1..Len(es) : 4 + Len(EntriesBytes(SubSeq(es, 1, i))) <= cut })

(***************************************************************************)
(* C1: for a valid archive with N entries, unpack_archive makes exactly N  *)
(* calls status(current, total), with current = 1, 2, ..., N and total the *)
(* declared entry_count.                                                   *)
(***************************************************************************)
C1_ExactlyNStatusCalls ==
    (pc = "done" /\ input.kind = "valid" /\ result = 1) =>
        /\ Len(StatusCalls) = N
        /\ \A i \in 1..Len(StatusCalls) :
             StatusCalls[i].n = i /\ IsDeclaredCount(StatusCalls[i].m)

\* C1 as amended: the calls are status(0, num), status(1, num), ..., in this
\* order, num being the header decoded into an int; all N + 1 of them have been
\* made when unpack_archive returns success.
C1_StatusCallsFromZero ==
    input.kind = "valid" =>
        /\ Len(StatusCalls) <= N + 1
        /\ \A i \in 1..Len(StatusCalls) :
             /\ StatusCalls[i].n = i - 1
             /\ StatusCalls[i].m =
                  DecodeInt(input.count[1], input.count[2], input.count[3], input.count[4])
             /\ input.count[4] < 128 => IsDeclaredCount(StatusCalls[i].m)
        /\ (pc = "done" /\ result = 1) => Len(StatusCalls) = N + 1

C1_Witness ==
    /\ pc = "done"
    /\ result = 1
    /\ input.kind = "valid"
    /\ N = 2
    /\ Len(StatusCalls) = 3
    /\ StatusCalls[3].n = 2

(***************************************************************************)
(* C2: on a valid archive truncated at any byte offset, unpack_archive     *)
(* returns failure, calls error exactly once, and calls neither new_file   *)
(* nor new_directory for an entry that extends past the truncation point.  *)
(***************************************************************************)
C2_TruncatedFailsWithOneError ==
    (pc = "done" /\ input.kind = "truncated") =>
        /\ result = 0
        /\ Len(ErrorCalls) = 1
        /\ Len(SelectSeq(sink, IsMaterialize)) <= CompleteEntries(input.entries, input.cut)

(***************************************************************************)
(* C3: whenever unpack_archive returns failure, error has been called      *)
(* exactly once; whenever it returns success, error has not been called.   *)
(***************************************************************************)
C3_ErrorOnceOnFailure ==
    pc = "done" =>
        /\ result = 0 => Len(ErrorCalls) = 1
        /\ result = 1 => Len(ErrorCalls) = 0

(***************************************************************************)
(* More vocabulary                                                         *)
(***************************************************************************)
Root == Resolve(destdir, build.WIN32)

\* the Destination Path of an entry: its name without leading "./", joined
\* to the destination root
DestName(e) == concatPaths(destdir, StripDotSlash(e.name), build.WIN32)
DestPath(e) == Resolve(DestName(e), build.WIN32)

IsDirEntry(e) == e.tag = TagDIR

Finishing == CallMessage("Finishing Installation")
IsFinishing(c) == c = Finishing

\* the bytes a completed 3-byte tag read returned
TagAt(r) == SubSeq(data, r.at + 1, r.at + 3)
IsTagRead(r) == r.what = "tag" /\ r.got = 3

\* the last call of z->read returned the tag "END"
EndWasRead ==
    /\ rlog # <<>>
    /\ IsTagRead(rlog[Len(rlog)])
    /\ TagAt(rlog[Len(rlog)]) = TagEND

(***************************************************************************)
(* C4: unpack_archive returns success exactly when it read the tag "END"   *)
(* at a tag position; on success the last sink call is the finishing       *)
(* message, every file entry's destination file holds its declared         *)
(* payload, and the destination root and every DIR entry's directory       *)
(* exist; on failure the finishing message is never sent.                  *)
(***************************************************************************)
C4_SuccessMeansMaterialized ==
    pc = "done" =>
        /\ result = 1 <=> EndWasRead
        /\ result = 1 =>
             /\ sink[Len(sink)] = Finishing
             /\ input.kind = "valid" =>
                  /\ Root \in fs.dirs
                  /\ \A i \in 1..N :
                       LET e == input.entries[i] IN
                       IF IsDirEntry(e)
                       THEN DestPath(e) \in fs.dirs
                       ELSE /\ DestPath(e) \in DOMAIN fs.files
                            /\ fs.files[DestPath(e)] = e.payload
        /\ result = 0 => SelectSeq(sink, IsFinishing) = <<>>

(***************************************************************************)
(* C5: round trip.  A directory tree encoded in the wire format, each      *)
(* directory as a DIR entry before its children, and extracted into an     *)
(* empty destination, leaves under the destination root the directories    *)
(* and the files, byte for byte, of the tree.                              *)
(***************************************************************************)
\* the place of an entry in the tree ('/' separates the names of a tree)
TreePath(e) == Resolve(e.name, FALSE)

IsTreeEncoding(es) ==
    \A i \in 1..Len(es) :
        LET p == TreePath(es[i]) IN
        /\ p # <<>>
        /\ \A j \in 1..(i - 1) : TreePath(es[j]) # p
        /\ Len(p) > 1 =>
             \E j \in 1..(i - 1) : IsDirEntry(es[j]) /\ TreePath(es[j]) = Parent(p)

TreeDirs(es)  == { TreePath(es[i]) : i \in { k \in 1..Len(es) : IsDirEntry(es[k]) } }
TreeFiles(es) == { TreePath(es[i]) : i \in { k \in 1..Len(es) : ~IsDirEntry(es[k]) } }
TreeContent(es, p) ==
    es[CHOOSE i \in 1..Len(es) : ~IsDirEntry(es[i]) /\ TreePath(es[i]) = p].payload

C5_RoundTrip ==
    (pc = "done" /\ run = 1 /\ input.kind = "valid" /\ prev.fs = FsEmpty
       /\ IsTreeEncoding(input.entries)) =>
        /\ result = 1
        /\ fs.dirs = {<<>>, Root} \cup { Root \o p : p \in TreeDirs(input.entries) }
        /\ DOMAIN fs.files = { Root \o p : p \in TreeFiles(input.entries) }
        /\ \A p \in TreeFiles(input.entries) :
             fs.files[Root \o p] = TreeContent(input.entries, p)

(***************************************************************************)
(* C6: idempotence.  Running unpack_archive twice on a valid archive into  *)
(* the same destination succeeds both times and the second run leaves the  *)
(* filesystem as the first left it; files are overwritten from offset 0.   *)
(***************************************************************************)
C6_TwiceSucceedsOnEveryValidArchive ==
    (pc = "done" /\ input.kind = "valid") =>
        /\ result = 1
        /\ run > 1 => fs = prev.fs

\* C6 as amended: for a valid archive whose first extraction returns success
C6_SecondRunChangesNothing ==
    /\ (pc = "done" /\ run > 1 /\ input.kind = "valid") =>
          /\ prev.result = 1
          /\ result = 1
          /\ fs = prev.fs
    /\ pc = "copy" => Len(fs.files[fo]) = wpos

C6_Witness ==
    /\ pc = "done"
    /\ run = 2
    /\ result = 1
    /\ input.kind = "valid"
    /\ \E p \in DOMAIN fs.files : Len(fs.files[p]) = 2

(***************************************************************************)
(* C7: strict forward consumption.  Between the end of a file entry's      *)
(* descriptor and the read of the next tag, write_file consumes exactly    *)
(* the declared size S of bytes, for every S, and writes exactly those     *)
(* bytes in order to the file; no payload byte is read before the          *)
(* descriptor.                                                             *)
(***************************************************************************)
LastNameRead ==
    rlog[CHOOSE i \in 1..Len(rlog) :
            /\ rlog[i].what = "name"
            /\ \A j \in (i + 1)..Len(rlog) : rlog[j].what # "name"]

\* write_file has returned 1 and the next tag has not been read yet
FileEntryDone == pc = "tag" /\ pos >= 1 /\ ~StrEq(id, TagDIR)

C7_ConsumesExactlySize ==
    FileEntryDone =>
        LET start == LastNameRead.at + LastNameRead.got IN
        /\ len >= 0
        /\ zpos - start = len
        /\ fs.files[Resolve(filename, build.WIN32)] = SubSeq(data, start + 1, start + len)
        /\ \A i \in 1..Len(rlog) :
             rlog[i].what = "data" /\ rlog[i].at + rlog[i].got > start =>
                 rlog[i].at >= start /\ rlog[i].req <= CHUNK

(***************************************************************************)
(* C8: an archive of DIR entries (tag "DIR", size 0, name) and END is      *)
(* extracted with success: new_directory is called once per entry with the *)
(* entry's name, exactly those directories are created, empty, under the   *)
(* destination, progress (k, entry_count) is reported for the k-th entry   *)
(* and no payload byte is consumed.                                        *)
(***************************************************************************)
AllDirEntries ==
    /\ input.kind = "valid"
    /\ \A i \in 1..N : IsDirEntry(input.entries[i]) /\ input.entries[i].size = EncodeLE(0)

NewDirectoryCalls == SelectSeq(sink, IsNewDirectory)

\* line 276: create_directory returns at once, "nothing to do"
NothingToDo(path) ==
    path = <<>> \/ (path[1] = DOT /\ (Len(path) = 1 \/ path[2] = DOT))

\* the directories unpack_archive asks create_directory for and that it acts on
DirectoriesAskedFor ==
    { Resolve(q, build.WIN32) :
        q \in { r \in {destdir} \cup { DestName(input.entries[i]) : i \in 1..N } :
                  ~NothingToDo(r) } }

C8_DirectoriesByName ==
    (pc = "done" /\ AllDirEntries /\ run = 1 /\ prev.fs = FsEmpty) =>
        /\ result = 1
        /\ NewDirectoryCalls = [i \in 1..N |-> CallNewDirectory(input.entries[i].name)]
        /\ fs.dirs \ {Root} =
             (prev.fs.dirs \cup { DestPath(input.entries[i]) : i \in 1..N }) \ {Root}
        /\ fs.files = prev.fs.files
        /\ \A i \in 1..N : CallStatus(i, num) \in { sink[j] : j \in 1..Len(sink) }
        /\ \A j \in 1..Len(rlog) : rlog[j].what # "data"

\* C8 as amended: new_directory is given the destination path (the root joined
\* with the name without its leading "./"), once per entry read; no payload is
\* read: every read starts where the one before it ended; when unpack_archive
\* returns success every entry has been read, the directories it asked
\* create_directory for (those not skipped as "nothing to do") exist and no file
\* was made.
C8_DirectoriesByDestinationPath ==
    AllDirEntries =>
        /\ Len(NewDirectoryCalls) <= N
        /\ \A i \in 1..Len(NewDirectoryCalls) :
             NewDirectoryCalls[i] = CallNewDirectory(DestName(input.entries[i]))
        /\ SelectSeq(sink, IsNewFile) = <<>>
        /\ \A i \in 1..Len(StatusCalls) : StatusCalls[i] = CallStatus(i - 1, num)
        /\ \A j \in 1..Len(rlog) :
             /\ rlog[j].what # "data"
             /\ j > 1 => rlog[j].at = rlog[j - 1].at + rlog[j - 1].got
        /\ fs.files = prev.fs.files
        /\ (pc = "done" /\ result = 1) =>
             /\ Len(NewDirectoryCalls) = N
             /\ Len(StatusCalls) = N + 1
             /\ zpos = Len(data)
             /\ fs.dirs = prev.fs.dirs \cup DirectoriesAskedFor

C8_Witness ==
    /\ pc = "done"
    /\ result = 1
    /\ AllDirEntries
    /\ N = 2
    /\ prev.fs = FsEmpty
    /\ destdir = <<DOT>>
    /\ <<Name_s, <<116>>>> \in fs.dirs
    /\ NewDirectoryCalls[1].path # input.entries[1].name

(***************************************************************************)
(* C9: a DIR entry, and the creation of the destination root, whose path   *)
(* already exists as a directory makes no error call and no failure:       *)
(* the filesystem is left as it is and extraction goes on to the next tag  *)
(* (for the root: to the header).                                          *)
(***************************************************************************)
C9_ExistingDirectoryIsNoError ==
    [][ /\ (pc = "entry" /\ StrEq(id, TagDIR)
              /\ IsDirectory(filename, fs, build.WIN32)) =>
               /\ pc' = "tag"
               /\ result' = result
               /\ fs' = fs
               /\ sink' = Append(sink, CallNewDirectory(filename))
        /\ (pc = "start" /\ reader_init(build.ZLIB, input.kind)
              /\ IsDirectory(destdir, fs, build.WIN32)) =>
               /\ pc' = "header"
               /\ result' = result
               /\ fs' = fs
               /\ sink' = Append(sink, CallMessage("Creating installation directory"))
      ]_vars

C9_Witness ==
    /\ pc = "tag"
    /\ run = 1
    /\ pos = 1
    /\ StrEq(id, TagDIR)
    /\ prev.fs = FsPopulated
    /\ destdir = Dir_d
    /\ Resolve(filename, build.WIN32) = <<Dir_d, Name_s>>
    /\ fs = FsPopulated
    /\ ErrorCalls = <<>>

(***************************************************************************)
(* C10: after the tag "DIR" the parser reads nothing before the 1-byte     *)
(* name length; after any other tag but "END" it reads a 4-byte            *)
(* little-endian size before the name length.                              *)
(***************************************************************************)
IsSizeRead(r) == r.what = "size" /\ r.req = 1

C10_NoSizeFieldForDir ==
    \A i \in 1..(Len(rlog) - 1) :
        (IsTagRead(rlog[i]) /\ ~StrEq(TagAt(rlog[i]), TagEND)) =>
            IF StrEq(TagAt(rlog[i]), TagDIR)
            THEN rlog[i + 1].what = "namelen"
            ELSE IsSizeRead(rlog[i + 1])

\* C10 as amended: after every tag but "END", "DIR" included, four one-byte
\* reads of the size come before the read of the name length, and the four
\* bytes are taken as a little-endian number.
C10_SizeFieldForEveryTag ==
    /\ \A i \in 1..Len(rlog) :
         (IsTagRead(rlog[i]) /\ ~StrEq(TagAt(rlog[i]), TagEND)) =>
             /\ \A j \in 1..4 : i + j <= Len(rlog) => IsSizeRead(rlog[i + j])
             /\ i + 5 <= Len(rlog) =>
                  /\ rlog[i + 5].what = "namelen"
                  /\ rlog[i + 5].at = rlog[i].at + 3 + 4
             /\ i = Len(rlog) => pc = "size"
    /\ (pc = "name" /\ input.kind = "valid") => EncodeLE(len) = input.entries[pos + 1].size

C10_Witness ==
    /\ pc = "tag"
    /\ \E i \in 1..Len(rlog) :
         /\ IsTagRead(rlog[i])
         /\ TagAt(rlog[i]) = TagDIR
         /\ i + 6 <= Len(rlog)
         /\ rlog[i + 5].what = "namelen"
         /\ rlog[i + 5].got = 1

(***************************************************************************)
(* C11: every stream unpack_archive creates (the memory reader m and the   *)
(* decompression filter z) has been released exactly once when             *)
(* unpack_archive returns, with success or with failure: none is released  *)
(* twice and none is left unreleased.                                      *)
(***************************************************************************)
Streams == {"m", "z"}

C11_StreamsReleasedOnce ==
    pc = "done" =>
        \A r \in Streams : heap.made[r] <= 1 /\ heap.freed[r] = heap.made[r]

(***************************************************************************)
(* C12: transitive release.  In every state of the inflate filter (fresh,  *)
(* after any reads, after the read in which the decoder signalled the end  *)
(* of the stream) a call of its dealloc releases the upstream reader       *)
(* exactly once and the decoder state exactly once.                        *)
(***************************************************************************)
FilterReleased == caller.stack = "zlib" /\ caller.phase = "released"

C12_DeallocReleasesUpstreamOnce ==
    FilterReleased =>
        /\ memreader.deallocs = 1
        /\ memreader.frees = 1
        /\ ~memreader.internal
        /\ inflater.ends = 1
        /\ inflater.frees = 1
        /\ ~inflater.internal

(***************************************************************************)
(* C13: the memory reader.  For every sequence of reads with max_len >= 0  *)
(* on a buffer of length L, each call of reader_memread returns            *)
(* min(max_len, L - cursor), copies exactly those bytes from the cursor on *)
(* and moves the cursor on by the value returned; 0 <= cursor <= L always  *)
(* holds, and a read with the cursor at L returns 0 and leaves the cursor  *)
(* where it is.                                                            *)
(***************************************************************************)
C13_MemreadReturnsMin ==
    /\ memreader.internal => 0 <= memreader.pos /\ memreader.pos <= memreader.length
    /\ \A i \in 1..Len(caller.mcalls) :
         LET c == caller.mcalls[i] IN
         /\ c.max_len >= 0
         /\ 0 <= c.at /\ c.at <= memreader.length
         /\ c.ret = Min(c.max_len, memreader.length - c.at)
         /\ c.bytes = SubSeq(memreader.data, c.at + 1, c.at + c.ret)
         /\ c.after = c.at + c.ret
         /\ c.at = memreader.length => c.ret = 0 /\ c.after = c.at
         /\ c.at = IF i = 1 THEN 0 ELSE caller.mcalls[i - 1].after
         /\ (i = Len(caller.mcalls) /\ memreader.internal) => memreader.pos = c.after

C13_Witness ==
    /\ caller.stack = "mem"
    /\ Len(caller.mcalls) = 3
    /\ caller.mcalls[1].ret = 1
    /\ caller.mcalls[2].max_len = 3
    /\ caller.mcalls[2].ret = 2
    /\ caller.mcalls[2].bytes = <<9, EOS>>
    /\ caller.mcalls[3].max_len = 1
    /\ caller.mcalls[3].ret = 0
    /\ memreader.pos = memreader.length

(***************************************************************************)
(* C14: the inflate filter, Active and Finished.  The read in which the    *)
(* decoder signals the end of the stream returns the number of bytes it    *)
(* put into the caller's buffer and leaves the filter Finished, its        *)
(* decoder state freed; every later read returns 0 and touches neither the *)
(* freed state nor the upstream reader; every read that returns with the   *)
(* filter still Active returns the length asked for; the values returned   *)
(* add up to the pos field of the filter.                                  *)
(***************************************************************************)
RECURSIVE SumOfReturns(_)
SumOfReturns(calls) ==
    IF calls = <<>> THEN 0
    ELSE (IF Head(calls).returned THEN Head(calls).ret ELSE 0) + SumOfReturns(Tail(calls))

C14_ActiveThenFinished ==
    caller.stack = "zlib" =>
        /\ \A i \in 1..Len(caller.calls) :
             LET c == caller.calls[i] IN
             c.returned =>
                /\ (c.active /\ c.finished) => c.ret = c.produced
                /\ (c.active /\ ~c.finished) => c.ret = c.req /\ c.produced = c.req
                /\ ~c.active => c.ret = 0 /\ c.produced = 0 /\ c.mreads = 0 /\ ~c.touched
                /\ c.finished => \A j \in (i + 1)..Len(caller.calls) :
                                     ~caller.calls[j].active
                /\ c.active = (i = 1 \/ ~caller.calls[i - 1].finished)
        /\ caller.phase = "running" =>
             /\ inflater.pos = SumOfReturns(caller.calls)
             /\ inflater.internal =
                  (caller.calls = <<>> \/ ~caller.calls[Len(caller.calls)].finished)
             /\ ~inflater.internal => inflater.ends = 1 /\ inflater.frees = 1
             /\ inflater.internal => inflater.ends = 0 /\ inflater.frees = 0

C14_Witness ==
    /\ caller.stack = "zlib"
    /\ caller.phase = "running"
    /\ Len(caller.calls) = 3
    /\ caller.calls[1].req = 1 /\ caller.calls[1].ret = 1 /\ ~caller.calls[1].finished
    /\ caller.calls[2].req = 3 /\ caller.calls[2].ret = 1 /\ caller.calls[2].finished
    /\ caller.calls[3].req = 1 /\ caller.calls[3].ret = 0 /\ ~caller.calls[3].active
    /\ inflater.pos = 2

(***************************************************************************)
(* C15: abort on failure.  Once a read of the header, of a tag or of a     *)
(* size comes up short, or a call of create_directory or write_file fails, *)
(* unpack_archive reads no more of the stream, makes no more status,       *)
(* message, new_file or new_directory call and changes the filesystem no   *)
(* more before it returns failure; what earlier entries put on the         *)
(* filesystem stays as it is.                                              *)
(*                                                                         *)
(* The four one-byte reads of a header or of a size are all made before    *)
(* their sum is tested (lines 391-395, 417-421): the reads that follow a   *)
(* short one in the same field find nothing and take nothing.              *)
(***************************************************************************)
IsCheckedRead(r) == r.what \in {"header", "tag", "size", "data"}
IsShort(r) == r.got < r.req

\* the step in which unpack_archive returns 0
Fails == result = -1 /\ result' = 0

\* a short read is followed by empty reads of the same field only, and by the
\* return of failure; an error call is the last call on the sink
AbortedAtTheFailure ==
    /\ \A i \in 1..Len(rlog) :
         (IsCheckedRead(rlog[i]) /\ IsShort(rlog[i])) =>
            /\ pc = "done"
            /\ result = 0
            /\ zpos = rlog[i].at + rlog[i].got
            /\ \A j \in (i + 1)..Len(rlog) :
                 rlog[j].what = rlog[i].what /\ rlog[j].req = 1 /\ rlog[j].got = 0
    /\ \A i \in 1..Len(sink) :
         IsError(sink[i]) => i = Len(sink) /\ pc = "done" /\ result = 0
    /\ (pc = "done" /\ result = 0) =>
         (\E i \in 1..Len(rlog) : IsCheckedRead(rlog[i]) /\ IsShort(rlog[i]))
         \/ (sink # <<>> /\ IsError(sink[Len(sink)]))

C15_AbortOnFailure ==
    /\ []AbortedAtTheFailure
    /\ [][ /\ Fails =>
              /\ pc' = "done"
              /\ sink' = sink \/ IsError(sink'[Len(sink')])
              /\ pc \in {"header", "tag", "size", "copy"} =>
                    /\ fs' = fs
                    /\ sink' = sink \/ sink' = Append(sink, sink'[Len(sink')])
              /\ pc \in {"start", "entry"} =>
                    /\ rlog' = rlog
                    /\ zpos' = zpos
                    /\ \/ fs' = fs
                       \/ /\ pc = "entry"
                          /\ ~StrEq(id, TagDIR)
                          /\ fs' = create_directory(get_directory(filename), fs,
                                                    build.WIN32).fs
              /\ fs.dirs \subseteq fs'.dirs
              /\ \A q \in DOMAIN fs.files :
                    q \in DOMAIN fs'.files /\ fs'.files[q] = fs.files[q]
           /\ (pc = "done" /\ result = 0) => UNCHANGED vars
         ]_vars

\* the second entry's payload is cut: the directory the first entry made and
\* the file begun for the second are there when unpack_archive returns 0
C15_Witness ==
    /\ pc = "done"
    /\ result = 0
    /\ input.kind = "truncated"
    /\ pos = 2
    /\ <<Dir_d, Name_s>> \in fs.dirs
    /\ fo = <<Dir_d, Name_s, Name_f>>
    /\ IsShort(rlog[Len(rlog)])
    /\ IsError(sink[Len(sink)])
    /\ Len(ErrorCalls) = 1

(***************************************************************************)
(* C16: numeric decoding.  The 4-byte header and the 4-byte size of an     *)
(* entry are taken as little-endian unsigned 32-bit numbers, values from   *)
(* 2^31 on included: the total given to status is the unsigned             *)
(* entry_count, and a file entry of size S >= 2^31 is treated as having S  *)
(* bytes of payload, never as empty or negative.                           *)
(***************************************************************************)
\* v is the unsigned number the four bytes b encode
IsUnsignedValue(v, b) == v >= 0 /\ EncodeLE(v) = b

C16_UnsignedDecoding ==
    /\ \A i \in 1..Len(StatusCalls) : IsUnsignedValue(StatusCalls[i].m, input.count)
    /\ \A k \in 1..N :
         (input.kind \in {"valid", "crafted"}
            /\ \/ pc = "name" /\ k = pos + 1
               \/ pc \in {"entry", "copy"} /\ k = pos) =>
            IsUnsignedValue(len, input.entries[k].size)

(***************************************************************************)
(* C17: create_directory does nothing and returns success only for the     *)
(* empty path, "." and "..".  For every other path that is no directory    *)
(* yet, paths that merely begin with ".." included ("..x", "../d"), it     *)
(* strips the leading "./" and ".\" and tries to create the directory: it  *)
(* returns success only if that succeeds, and otherwise calls error once   *)
(* and returns failure.                                                    *)
(***************************************************************************)
IsEmptyDotOrDotDot(path) == path \in { <<>>, <<DOT>>, <<DOT, DOT>> }

\* what the claim lets create_directory(path) return in the filesystem f
AsClaimedForCreateDirectory(path, f, win32, r) ==
    LET p == StripDotSlash(path) IN
    IF IsEmptyDotOrDotDot(path) \/ IsDirectory(p, f, win32)
    THEN r = [ret |-> 1, fs |-> f, calls |-> <<>>]
    ELSE \/ /\ r.ret = 1
            /\ r.calls = <<>>
            /\ r.fs.dirs = f.dirs \cup {Resolve(p, win32)}
            /\ Resolve(p, win32) \notin f.dirs
         \/ /\ r.ret = 0
            /\ r.fs = f
            /\ Len(r.calls) = 1
            /\ IsError(r.calls[1])

PathsTried ==
    { <<>>, <<DOT>>, <<DOT, DOT>>, <<DOT, SLASH, 115>>, <<DOT, BACKSLASH, 115>>,
      Name_s, Name_st, <<DOT, 120>>, <<DOT, DOT, 120>>, <<DOT, DOT, SLASH, 100>> }

\* create_directory(destdir) has returned 1
RootCreated == pc = "header" /\ run = 1

C17_NoOpOnlyForEmptyDotDotDot ==
    RootCreated =>
        /\ IsEmptyDotOrDotDot(destdir)
             \/ IsDirectory(StripDotSlash(destdir), fs, build.WIN32)
        /\ \A path \in PathsTried \cup {destdir} :
              AsClaimedForCreateDirectory(path, fs, build.WIN32,
                                          create_directory(path, fs, build.WIN32))

(***************************************************************************)
(* C18: LZMA construction failure.  When the properties header cannot be   *)
(* decoded reader_init_lzma returns no filter; unpack_archive then calls   *)
(* error exactly once and returns failure, having made no status, message, *)
(* new_file or new_directory call, read nothing and changed nothing on the *)
(* filesystem: the destination root is not created.                        *)
(***************************************************************************)
PropertiesUndecodable == input.kind = "undecodable" /\ ~build.ZLIB

C18_NoFilterNoExtraction ==
    PropertiesUndecodable =>
        /\ pc \in {"start", "done"}
        /\ fs = prev.fs
        /\ rlog = <<>>
        /\ zpos = 0
        /\ pc = "start" => sink = <<>> /\ result = -1
        /\ pc = "done" =>
             /\ result = 0
             /\ Len(sink) = 1
             /\ IsError(sink[1])
             /\ sink[1] = CallError("Couldn't decompress installation files", <<>>)

C18_Witness ==
    /\ PropertiesUndecodable
    /\ pc = "done"
    /\ result = 0
    /\ destdir = Dir_d
    /\ Root \notin fs.dirs
    /\ Len(ErrorCalls) = 1

(***************************************************************************)
(* C19: write_file never returns with the file handle it opened still open *)
(* or the copy of the name it made still allocated: when it returns 1,     *)
(* when fopen fails and when a read comes up short, the handle has been    *)
(* closed and the copy freed, each exactly once.                           *)
(***************************************************************************)
\* no call of write_file is under way
OutsideWriteFile == pc \in {"tag", "done"}

C19_HandleClosedNameFreed ==
    /\ heap.freed["filename"] <= heap.made["filename"]
    /\ OutsideWriteFile =>
          /\ fo = <<>>
          /\ heap.freed["filename"] = heap.made["filename"]

(***************************************************************************)
(* C20: termination.  For every finite decompressed stream, valid, cut or  *)
(* arbitrary, and whatever the filesystem answers, unpack_archive ends in  *)
(* DONE (it returns success) or in FAILED (it returns failure).  The loop  *)
(* over the entries cannot go on for ever: every turn that does not fail   *)
(* moves the position in the stream on by at least the 3 bytes of the tag. *)
(***************************************************************************)
Returned == pc = "done" /\ result \in {0, 1}

\* how far a turn of the loop has come
PcRank ==
    CASE pc = "done"   -> 0
      [] pc = "tag"    -> 1
      [] pc = "copy"   -> 2
      [] pc = "entry"  -> 3
      [] pc = "name"   -> 4
      [] pc = "size"   -> 5
      [] pc = "header" -> 6
      [] pc = "start"  -> 7

\* a step takes bytes from the stream, of which there are Len(data), or it
\* takes none and moves on in the turn of the loop: no run has more than
\* 8 * (Len(data) + 1) steps
ComesNearer ==
    \/ zpos < zpos' /\ zpos' <= Len(data)
    \/ zpos' = zpos /\ PcRank' < PcRank

\* the guards of the steps: before the return there is a step to take
CanStep ==
    \/ pc \in {"start", "header", "tag", "size", "name", "entry"}
    \/ pc = "copy" /\ (wpos < len \/ ~(wpos < len))

C20_Terminates ==
    /\ [](Returned \/ (pc # "done" /\ result = -1 /\ CanStep))
    /\ [](0 <= zpos /\ zpos <= Len(data))
    /\ [][ /\ run' = run => ComesNearer
           /\ (pc = "tag" /\ pc' # "done") => zpos' = zpos + 3
         ]_vars

C20_Witness ==
    /\ Returned
    /\ run = 1
    /\ result = 1
    /\ N = 2
    /\ pos = 2
    /\ zpos = Len(data)
    /\ Len(SelectSeq(rlog, IsTagRead)) = 3

====
